---------------------------- MODULE Spec2Model ----------------------------
(***************************************************************************)
(* A model of the `checkout` command-line tool (src/src/main.rs): the      *)
(* terminal decoration guard and its interrupt handler, the conflict       *)
(* prompt of the pr and branch commands, the search for the next free      *)
(* worktree path, the per-worktree color assignment, the PR reference      *)
(* parser and the slug generator.                                          *)
(*                                                                         *)
(* Each subsystem has its own variables, its own initial predicate and its *)
(* own specification; a specification leaves the other subsystems idle.    *)
(* Strings the program inspects character by character are sequences of    *)
(* one-character strings.                                                  *)
(***************************************************************************)
EXTENDS Integers, Sequences, FiniteSets, TLC

VARIABLES
    \* ---- terminal decoration (ItermGuard, the ctrl-c handler) ----
    mpc,             \* position of the main thread
    hpc,             \* position of the interrupt handler thread
    ITERM_MODIFIED,  \* the global AtomicBool
    emitted,         \* escape sequences written to the terminal, in order
    spawnOk,         \* whether the session launcher returned Ok
    exitCode,        \* process exit status, NoExit while the process runs
    sigAfterSet,     \* the interrupt arrived after the first set sequence
    \* ---- run_pr / run_branch with an existing worktree ----
    cmd,             \* "pr" or "branch"
    rpc,             \* position in run_pr / run_branch
    wt,              \* the existing worktree: [dirty, tip]
    has_changes,     \* what has_uncommitted_changes returned
    action,          \* what prompt_existing_worktree_action returned
    final_path,      \* "none", "existing" or "new"
    cmds,            \* git commands run on the existing worktree, in order
    reads,           \* lines read from standard input so far
    eof,             \* standard input has reached end-of-file
    lastMenu,        \* the last answer read at the menu prompt
    lastConfirm,     \* the answer read at the confirmation that followed it
    cancelled,       \* how often the confirmation was declined
    menuTick,        \* parity of the number of times the question was printed
    \* ---- find_next_worktree_path ----
    existing,        \* the paths that exist on disk at call time
    suffix,          \* the local `suffix`
    fpc,             \* "loop", "ok" or "err"
    tried,           \* candidates tested with exists() so far
    returned,        \* the path returned, NoPath before
    \* ---- color assignment (the color directory, concurrent invocations) ----
    colorFiles,      \* the color directory: file name -> file content
    inv,             \* per invocation: [pc, path, color]
    startFill,       \* how many color files the directory held at the start
    removed,         \* color files deleted by clean so far
    prevPick,        \* per path: result of the pick before the latest one
    lastPick,        \* per path: result of the latest pick
    fileAtLast,      \* per path: its file's content at the latest pick, while
                     \* the file has since been neither deleted nor changed
    kept,            \* per path: fileAtLast was set when the latest pick ran
    writesSince,     \* per path: saves of other files since its latest pick
    between,         \* per path: writesSince when the latest pick ran
    \* ---- extract_pr_number ----
    input,           \* the argument, a sequence of characters
    ppc,             \* "start" before the call, "done" after it
    result,          \* the Result returned
    \* ---- create_slug ----
    title,           \* the title the first call is given
    slugs,           \* what successive calls returned, each fed the last
    \* ---- run_clean ----
    kpc,             \* position in run_clean
    skip_confirm,    \* the --yes flag
    present,         \* the linked worktrees registered with git
    dirty,           \* the working trees that have uncommitted changes
    kcolors,         \* names that have a color file
    worktrees,       \* what get_all_worktrees returned
    clean_worktrees, \* the worktrees without has_changes
    kidx,            \* index of the removal loop
    removed_count,   \* the local `removed_count`
    failed,          \* the local `failed`
    klog,            \* external commands run so far: [cmd, path, result]
    answer,          \* the line read at the confirmation
    kreported,       \* error reports printed so far
    kexit,           \* exit status of the process, NoExit while it runs
    decorated,       \* the names of the worktrees decorated so far
    \* ---- provisioning of a new worktree ----
    vkind,           \* "remote" (from a remote ref) or "new_branch"
    vpc,             \* the step that runs next, "ok" or "err" at the end
    miseFound,       \* `which mise` finds mise
    gtFound,         \* gt is installed
    settings,        \* where settings.local.json exists: "repo", "global", "none"
    vlog,            \* the steps run so far: [step, result]
    verr,            \* the error returned, NoError before
    \* ---- add_claude_trust ----
    tpc,             \* "start" before the call, "ok" or "err" after it
    claudeJson,      \* ~/.claude.json exists
    projects,        \* its projects object: path -> settings object
    before           \* the projects object when the call was made

itermVars == <<mpc, hpc, ITERM_MODIFIED, emitted, spawnOk, exitCode, sigAfterSet>>
runVars == <<cmd, rpc, wt, has_changes, action, final_path, cmds, reads, eof,
             lastMenu, lastConfirm, cancelled, menuTick>>
pathVars == <<existing, suffix, fpc, tried, returned>>
colorVars == <<colorFiles, inv, startFill, removed, prevPick, lastPick,
               fileAtLast, kept, writesSince, between>>
parseVars == <<input, ppc, result>>
slugVars == <<title, slugs>>
cleanVars == <<decorated, kpc, skip_confirm, present, dirty, kcolors,
               worktrees, clean_worktrees, kidx, removed_count, failed, klog,
               answer, kreported, kexit>>
provVars == <<vkind, vpc, miseFound, gtFound, settings, vlog, verr>>
trustVars == <<tpc, claudeJson, projects, before>>
vars == <<itermVars, runVars, pathVars, colorVars, parseVars, slugVars,
          cleanVars, provVars, trustVars>>

notIterm ==
    <<runVars, pathVars, colorVars, parseVars, slugVars,
      cleanVars, provVars, trustVars>>
notRun ==
    <<itermVars, pathVars, colorVars, parseVars, slugVars,
      cleanVars, provVars, trustVars>>
notPath ==
    <<itermVars, runVars, colorVars, parseVars, slugVars,
      cleanVars, provVars, trustVars>>
notColor ==
    <<itermVars, runVars, pathVars, parseVars, slugVars,
      cleanVars, provVars, trustVars>>
notParse ==
    <<itermVars, runVars, pathVars, colorVars, slugVars,
      cleanVars, provVars, trustVars>>
notClean ==
    <<itermVars, runVars, pathVars, colorVars, parseVars, slugVars,
      provVars, trustVars>>
notProv ==
    <<itermVars, runVars, pathVars, colorVars, parseVars, slugVars,
      cleanVars, trustVars>>
notTrust ==
    <<itermVars, runVars, pathVars, colorVars, parseVars, slugVars,
      cleanVars, provVars>>
notSlug ==
    <<itermVars, runVars, pathVars, colorVars, parseVars,
      cleanVars, provVars, trustVars>>

NoExit == -1

---------------------------------------------------------------------------
(* Helpers on sequences.                                                   *)

RECURSIVE Count(_, _)
Count(s, x) ==
    IF s = <<>> THEN 0
    ELSE (IF Head(s) = x THEN 1 ELSE 0) + Count(Tail(s), x)

---------------------------------------------------------------------------
(* Terminal decoration: main thread.                                       *)

Running == exitCode = NoExit

\* run_pr / run_branch up to the decoration: an earlier step failed, or
\* --no-claude was given, or the flow reaches ItermGuard::new.
MainStart ==
    /\ Running /\ mpc = "run"
    /\ \E outcome \in {"early_err", "no_claude", "decorate"} :
         /\ mpc' = (IF outcome = "decorate" THEN "set_bg" ELSE "return")
         /\ spawnOk' = (outcome # "early_err")
    /\ UNCHANGED <<hpc, ITERM_MODIFIED, emitted, exitCode, sigAfterSet>>
    /\ UNCHANGED notIterm

\* ItermGuard::new, first statement: set_iterm_background
GuardSetBackground ==
    /\ Running /\ mpc = "set_bg"
    /\ emitted' = Append(emitted, "set_bg")
    /\ mpc' = "set_title"
    /\ UNCHANGED <<hpc, ITERM_MODIFIED, spawnOk, exitCode, sigAfterSet>>
    /\ UNCHANGED notIterm

\* ItermGuard::new, second statement: set_iterm_title
GuardSetTitle ==
    /\ Running /\ mpc = "set_title"
    /\ emitted' = Append(emitted, "set_title")
    /\ mpc' = "store_true"
    /\ UNCHANGED <<hpc, ITERM_MODIFIED, spawnOk, exitCode, sigAfterSet>>
    /\ UNCHANGED notIterm

\* ItermGuard::new, third statement: ITERM_MODIFIED.store(true)
GuardStoreTrue ==
    /\ Running /\ mpc = "store_true"
    /\ ITERM_MODIFIED' = TRUE
    /\ mpc' = "spawn"
    /\ UNCHANGED <<hpc, emitted, spawnOk, exitCode, sigAfterSet>>
    /\ UNCHANGED notIterm

\* spawn_claude_pr / spawn_claude: blocks until the child exits; Ok or Err.
\* Either way the guard goes out of scope next.
SpawnClaude ==
    /\ Running /\ mpc = "spawn"
    /\ \E ok \in BOOLEAN : spawnOk' = ok
    /\ mpc' = "drop_load"
    /\ UNCHANGED <<hpc, ITERM_MODIFIED, emitted, exitCode, sigAfterSet>>
    /\ UNCHANGED notIterm

\* Drop for ItermGuard: if ITERM_MODIFIED.load() { ... }
DropLoad ==
    /\ Running /\ mpc = "drop_load"
    /\ mpc' = (IF ITERM_MODIFIED THEN "drop_reset_bg" ELSE "return")
    /\ UNCHANGED <<hpc, ITERM_MODIFIED, emitted, spawnOk, exitCode, sigAfterSet>>
    /\ UNCHANGED notIterm

DropResetBackground ==
    /\ Running /\ mpc = "drop_reset_bg"
    /\ emitted' = Append(emitted, "reset_bg")
    /\ mpc' = "drop_reset_title"
    /\ UNCHANGED <<hpc, ITERM_MODIFIED, spawnOk, exitCode, sigAfterSet>>
    /\ UNCHANGED notIterm

DropResetTitle ==
    /\ Running /\ mpc = "drop_reset_title"
    /\ emitted' = Append(emitted, "reset_title")
    /\ mpc' = "drop_store"
    /\ UNCHANGED <<hpc, ITERM_MODIFIED, spawnOk, exitCode, sigAfterSet>>
    /\ UNCHANGED notIterm

DropStoreFalse ==
    /\ Running /\ mpc = "drop_store"
    /\ ITERM_MODIFIED' = FALSE
    /\ mpc' = "return"
    /\ UNCHANGED <<hpc, emitted, spawnOk, exitCode, sigAfterSet>>
    /\ UNCHANGED notIterm

\* main: run() returned; Ok ends the process with 0, Err with exit(1).
MainReturn ==
    /\ Running /\ mpc = "return"
    /\ exitCode' = (IF spawnOk THEN 0 ELSE 1)
    /\ mpc' = "exited"
    /\ UNCHANGED <<hpc, ITERM_MODIFIED, emitted, spawnOk, sigAfterSet>>
    /\ UNCHANGED notIterm

---------------------------------------------------------------------------
(* Terminal decoration: the interrupt handler, which the ctrlc crate runs  *)
(* on a thread of its own, concurrently with the main thread.              *)

\* SIGINT is delivered; the handler closure starts.
Interrupt ==
    /\ Running /\ hpc = "idle"
    /\ hpc' = "load"
    /\ sigAfterSet' = (Count(emitted, "set_bg") > 0)
    /\ UNCHANGED <<mpc, ITERM_MODIFIED, emitted, spawnOk, exitCode>>
    /\ UNCHANGED notIterm

\* if ITERM_MODIFIED.load() { ... }
HandlerLoad ==
    /\ Running /\ hpc = "load"
    /\ hpc' = (IF ITERM_MODIFIED THEN "reset_bg" ELSE "exit")
    /\ UNCHANGED <<mpc, ITERM_MODIFIED, emitted, spawnOk, exitCode, sigAfterSet>>
    /\ UNCHANGED notIterm

HandlerResetBackground ==
    /\ Running /\ hpc = "reset_bg"
    /\ emitted' = Append(emitted, "reset_bg")
    /\ hpc' = "reset_title"
    /\ UNCHANGED <<mpc, ITERM_MODIFIED, spawnOk, exitCode, sigAfterSet>>
    /\ UNCHANGED notIterm

HandlerResetTitle ==
    /\ Running /\ hpc = "reset_title"
    /\ emitted' = Append(emitted, "reset_title")
    /\ hpc' = "exit"
    /\ UNCHANGED <<mpc, ITERM_MODIFIED, spawnOk, exitCode, sigAfterSet>>
    /\ UNCHANGED notIterm

\* std::process::exit(130): the flag is left as it is.
HandlerExit ==
    /\ Running /\ hpc = "exit"
    /\ exitCode' = 130
    /\ hpc' = "exited"
    /\ UNCHANGED <<mpc, ITERM_MODIFIED, emitted, spawnOk, sigAfterSet>>
    /\ UNCHANGED notIterm

InitIterm ==
    /\ mpc = "run"
    /\ hpc = "idle"
    /\ ITERM_MODIFIED = FALSE
    /\ emitted = <<>>
    /\ spawnOk = TRUE
    /\ exitCode = NoExit
    /\ sigAfterSet = FALSE

NextIterm ==
    \/ MainStart
    \/ GuardSetBackground
    \/ GuardSetTitle
    \/ GuardStoreTrue
    \/ SpawnClaude
    \/ DropLoad
    \/ DropResetBackground
    \/ DropResetTitle
    \/ DropStoreFalse
    \/ MainReturn
    \/ Interrupt
    \/ HandlerLoad
    \/ HandlerResetBackground
    \/ HandlerResetTitle
    \/ HandlerExit



---------------------------------------------------------------------------
(* Text helpers: str::trim and str::to_lowercase on sequences of           *)
(* one-character strings.                                                  *)

IsWhitespace(c) == c \in {" ", "\t", "\n", "\r"}

RECURSIVE TrimStart(_)
TrimStart(s) ==
    IF s # <<>> /\ IsWhitespace(Head(s)) THEN TrimStart(Tail(s)) ELSE s

RECURSIVE TrimEnd(_)
TrimEnd(s) ==
    IF s # <<>> /\ IsWhitespace(s[Len(s)])
    THEN TrimEnd(SubSeq(s, 1, Len(s) - 1))
    ELSE s

Trim(s) == TrimEnd(TrimStart(s))

\* char::to_lowercase for the characters of the model's alphabets. U+0130
\* (capital I with dot above) lowers to two characters, i and the combining
\* dot U+0307; every other character of the alphabets lowers to one.
LowerChar(c) ==
    CASE c = "A" -> <<"a">>
      [] c = "B" -> <<"b">>
      [] c = "N" -> <<"n">>
      [] c = "Y" -> <<"y">>
      [] c = "I+dot" -> <<"i", "dot">>
      [] OTHER -> <<c>>

RECURSIVE ToLowercase(_)
ToLowercase(s) ==
    IF s = <<>> THEN <<>> ELSE LowerChar(Head(s)) \o ToLowercase(Tail(s))

---------------------------------------------------------------------------
(* run_pr and run_branch from find_existing_worktree to the resolved path, *)
(* with the conflict prompt and update_worktree.                           *)

MaxReads == 4

\* What one read_line can deliver: a line, nothing at end-of-file, or an
\* I/O error.
Lines ==
    { <<"1", "\n">>, <<" ", "1", " ", "\n">>, <<"2", "\n">>, <<"3", "\n">>,
      <<"y", "\n">>, <<"Y", "\n">>, <<" ", "y", "\r", "\n">>,
      <<"y", "e", "s", "\n">>, <<"n", "\n">>, <<"\n">>, <<"1">> }
Unread == <<"unread">>
IoError == <<"io-error">>
AtEof == <<>>

\* find_existing_worktree: a matching worktree, none, or the listing failed.
RunLocate ==
    /\ rpc = "locate"
    /\ \E r \in {"found", "absent", "err"} :
         rpc' = (CASE r = "found" -> "status"
                   [] r = "absent" -> "create"
                   [] r = "err" -> "failed")
    /\ UNCHANGED <<cmd, wt, has_changes, action, final_path, cmds, reads, eof,
                   lastMenu, lastConfirm, cancelled>>
    /\ UNCHANGED menuTick
    /\ UNCHANGED notRun

\* has_uncommitted_changes(&existing_path)?: Err when git cannot be spawned;
\* otherwise true exactly when git's standard output is not blank. The exit
\* status is not looked at, so a git that fails without output reports false.
RunStatus ==
    /\ rpc = "status"
    /\ \E r \in {"ok", "git_failed", "spawn_err"} :
         /\ rpc' = (IF r = "spawn_err" THEN "failed" ELSE "menu")
         /\ has_changes' = (IF r = "ok" THEN wt.dirty ELSE FALSE)
    /\ UNCHANGED <<cmd, wt, action, final_path, cmds, reads, eof,
                   lastMenu, lastConfirm, cancelled>>
    /\ UNCHANGED menuTick
    /\ UNCHANGED notRun

\* One io::stdin().read_line: a line, or "" at end-of-file (which then
\* persists), or an error.
CanRead(x) ==
    /\ x \in Lines \cup {AtEof, IoError}
    /\ eof => x = AtEof
    /\ x # AtEof => reads < MaxReads

ReadEffect(x) ==
    /\ reads' = (IF x = AtEof THEN reads ELSE reads + 1)
    /\ eof' = (eof \/ x = AtEof)

ConfirmAccepted_StartsWithY(line) ==
    LET t == ToLowercase(Trim(line)) IN t # <<>> /\ Head(t) = "y"

\* confirm.trim().to_lowercase() != "y" cancels
ConfirmAccepted(line) == ToLowercase(Trim(line)) = <<"y">>

\* prompt_existing_worktree_action: one pass of the loop up to the read of
\* the menu selection and the match on it; each pass prints the question.
PromptMenu ==
    /\ rpc = "menu"
    /\ \E x \in Lines \cup {AtEof, IoError} :
         /\ CanRead(x)
         /\ ReadEffect(x)
         /\ lastMenu' = x
         /\ lastConfirm' = Unread
         /\ \/ /\ x = IoError
               /\ rpc' = "failed"
               /\ UNCHANGED action
            \/ /\ x # IoError /\ Trim(x) = <<"1">> /\ has_changes
               /\ rpc' = "confirm"
               /\ UNCHANGED action
            \/ /\ x # IoError /\ Trim(x) = <<"1">> /\ ~has_changes
               /\ rpc' = "dispatch"
               /\ action' = "UseExisting"
            \/ /\ x # IoError /\ Trim(x) = <<"2">>
               /\ rpc' = "dispatch"
               /\ action' = "CreateNew"
            \/ /\ x # IoError /\ Trim(x) \notin {<<"1">>, <<"2">>}
               /\ rpc' = "menu"
               /\ UNCHANGED action
    /\ menuTick' = 1 - menuTick
    /\ UNCHANGED <<cmd, wt, has_changes, final_path, cmds, cancelled>>
    /\ UNCHANGED notRun

\* prompt_existing_worktree_action: the confirmation read after "1" for a
\* worktree with changes.
PromptConfirm ==
    /\ rpc = "confirm"
    /\ \E x \in Lines \cup {AtEof, IoError} :
         /\ CanRead(x)
         /\ ReadEffect(x)
         /\ lastConfirm' = x
         /\ \/ /\ x = IoError
               /\ rpc' = "failed"
               /\ UNCHANGED <<action, cancelled>>
            \/ /\ x # IoError /\ ConfirmAccepted(x)
               /\ rpc' = "dispatch"
               /\ action' = "UseExisting"
               /\ UNCHANGED cancelled
            \/ /\ x # IoError /\ ~ConfirmAccepted(x)
               /\ rpc' = "menu"
               /\ cancelled' = cancelled + 1
               /\ UNCHANGED action
    /\ UNCHANGED <<cmd, wt, has_changes, final_path, cmds, lastMenu>>
    /\ UNCHANGED menuTick
    /\ UNCHANGED notRun

\* What the UseExisting arm of each command does before it yields
\* existing_path: run_pr calls update_worktree, run_branch nothing.
UseExistingNext(c) == IF c = "pr" THEN "update_fetch" ELSE "ready"

\* match action { UseExisting => ... }
RunUseExisting ==
    /\ rpc = "dispatch" /\ action = "UseExisting"
    /\ rpc' = UseExistingNext(cmd)
    /\ final_path' = (IF UseExistingNext(cmd) = "ready" THEN "existing" ELSE final_path)
    /\ UNCHANGED <<cmd, wt, has_changes, action, cmds, reads, eof,
                   lastMenu, lastConfirm, cancelled>>
    /\ UNCHANGED menuTick
    /\ UNCHANGED notRun

\* update_worktree: git fetch origin <branch>
UpdateFetch ==
    /\ rpc = "update_fetch"
    /\ cmds' = Append(cmds, "fetch")
    /\ \E ok \in BOOLEAN : rpc' = (IF ok THEN "update_reset" ELSE "failed")
    /\ UNCHANGED <<cmd, wt, has_changes, action, final_path, reads, eof,
                   lastMenu, lastConfirm, cancelled>>
    /\ UNCHANGED menuTick
    /\ UNCHANGED notRun

\* update_worktree: git reset --hard origin/<branch>; then run_pr yields
\* existing_path.
UpdateReset ==
    /\ rpc = "update_reset"
    /\ cmds' = Append(cmds, "reset")
    /\ \E ok \in BOOLEAN :
         IF ok
         THEN /\ wt' = [dirty |-> FALSE, tip |-> "remote"]
              /\ final_path' = "existing"
              /\ rpc' = "ready"
         ELSE /\ rpc' = "failed"
              /\ UNCHANGED <<wt, final_path>>
    /\ UNCHANGED <<cmd, has_changes, action, reads, eof,
                   lastMenu, lastConfirm, cancelled>>
    /\ UNCHANGED menuTick
    /\ UNCHANGED notRun

\* The CreateNew arm running what the UseExisting arm of run_pr runs.
RunCreateNew_Updates ==
    /\ rpc = "dispatch" /\ action = "CreateNew"
    /\ rpc' = "update_fetch"
    /\ UNCHANGED <<cmd, wt, has_changes, action, final_path, cmds, reads, eof,
                   lastMenu, lastConfirm, cancelled>>
    /\ UNCHANGED menuTick
    /\ UNCHANGED notRun

\* match action { CreateNew => ... }: find_next_worktree_path, then the
\* provisioning of the new path; the existing worktree is not involved.
RunCreateNew ==
    /\ rpc = "dispatch" /\ action = "CreateNew"
    /\ rpc' = "create"
    /\ UNCHANGED <<cmd, wt, has_changes, action, final_path, cmds, reads, eof,
                   lastMenu, lastConfirm, cancelled>>
    /\ UNCHANGED menuTick
    /\ UNCHANGED notRun

\* create_new_worktree_from_remote / create_new_worktree_new_branch on a
\* path other than the existing worktree's: Ok or Err.
RunCreate ==
    /\ rpc = "create"
    /\ \E ok \in BOOLEAN :
         /\ rpc' = (IF ok THEN "ready" ELSE "failed")
         /\ final_path' = (IF ok THEN "new" ELSE final_path)
    /\ UNCHANGED <<cmd, wt, has_changes, action, cmds, reads, eof,
                   lastMenu, lastConfirm, cancelled>>
    /\ UNCHANGED menuTick
    /\ UNCHANGED notRun

InitRun ==
    /\ cmd \in {"pr", "branch"}
    /\ rpc = "locate"
    /\ wt \in [dirty : BOOLEAN, tip : {"local"}]
    /\ has_changes = FALSE
    /\ action = "none"
    /\ final_path = "none"
    /\ cmds = <<>>
    /\ reads = 0
    /\ eof = FALSE
    /\ lastMenu = Unread
    /\ lastConfirm = Unread
    /\ cancelled = 0
    /\ menuTick = 0

NextRun ==
    \/ RunLocate
    \/ RunStatus
    \/ PromptMenu
    \/ PromptConfirm
    \/ RunUseExisting
    \/ UpdateFetch
    \/ UpdateReset
    \/ RunCreateNew
    \/ RunCreate

---------------------------------------------------------------------------
(* find_next_worktree_path(worktree_dir, base_name).                       *)

FirstSuffix == 2
SuffixLimit == 100
MaxFill == 101

NoPath == [dir |-> "", name |-> <<>>]

\* worktree_dir.join(format!("{}-{}", base_name, suffix))
Candidate(k) == [dir |-> "worktree_dir", name |-> <<"base_name", "-", k>>]

\* The directory states the search is run against: the suffixes 2..j all
\* taken (none for j = 1), some further ones taken or not, and base_name-1.
ExtraSuffixes == {1, 3, SuffixLimit, SuffixLimit + 1}
FsChoices ==
    { {Candidate(k) : k \in (FirstSuffix..j) \cup X} :
          j \in 1..MaxFill, X \in SUBSET ExtraSuffixes }

NextSuffix_Skip(s) == s + 2

\* suffix += 1
NextSuffix(s) == s + 1

ExceedsLimit_Geq(s) == s >= SuffixLimit

\* if suffix > 100 { return Err("Too many worktrees") }
ExceedsLimit(s) == s > SuffixLimit

\* One pass of the loop.
FindNextStep ==
    /\ fpc = "loop"
    /\ tried' = tried + 1
    /\ IF Candidate(suffix) \notin existing
       THEN /\ returned' = Candidate(suffix)
            /\ fpc' = "ok"
            /\ UNCHANGED suffix
       ELSE /\ suffix' = NextSuffix(suffix)
            /\ fpc' = (IF ExceedsLimit(NextSuffix(suffix)) THEN "err" ELSE "loop")
            /\ UNCHANGED returned
    /\ UNCHANGED existing
    /\ UNCHANGED notPath

InitPath ==
    /\ existing \in FsChoices
    /\ suffix = FirstSuffix
    /\ fpc = "loop"
    /\ tried = 0
    /\ returned = NoPath

NextPath == FindNextStep

---------------------------------------------------------------------------
(* Color assignment: pick_available_color and save_worktree_color as each  *)
(* invocation of the tool runs them, one after the other, on the shared    *)
(* color directory; run_clean's removal of a color file.                   *)

COLOR_PALETTE ==
    << <<"1","e","2","2","3","3">>, <<"1","e","2","8","2","8">>,
       <<"2","d","1","f","2","d">>, <<"1","f","2","d","2","d">>,
       <<"2","b","2","4","3","3">>, <<"3","3","2","6","1","f">>,
       <<"1","f","2","b","3","3">>, <<"2","d","2","6","2","6">>,
       <<"2","6","2","d","2","6">>, <<"3","3","2","b","1","f">>,
       <<"2","6","1","f","2","d">>, <<"1","f","3","3","2","b">> >>

NumInvocations == 3
MaxRemovals == 1

\* The worktree paths invocations decorate. Two of them share their last
\* component.
WorktreePaths ==
    { <<"/","w","/","a">>, <<"/","w","/","b">>, <<"/","x","/","a">> }

\* The byte of each character the paths use (ASCII).
ByteOf(c) ==
    CASE c = "/" -> 47
      [] c = "a" -> 97
      [] c = "b" -> 98
      [] c = "w" -> 119
      [] c = "x" -> 120

\* Path::file_name: what follows the last separator.
RECURSIVE FileName(_)
FileName(path) ==
    IF \E i \in 1..Len(path) : path[i] = "/"
    THEN FileName(Tail(path))
    ELSE path

\* worktree_color_file: the color file is named after the directory name.
WorktreeColorFile(path) == FileName(path)

\* get_worktree_color: the file's content, trimmed, when it can be read.
HasColor(path, files) == WorktreeColorFile(path) \in DOMAIN files
GetWorktreeColor(path, files) == Trim(files[WorktreeColorFile(path)])

\* get_used_colors: the trimmed content of every file of the directory.
GetUsedColors(files) == {Trim(files[n]) : n \in DOMAIN files}

\* bytes().fold(0usize, wrapping_add): no path of the model comes near 2^64.
RECURSIVE ByteSum(_)
ByteSum(path) ==
    IF path = <<>> THEN 0 ELSE ByteOf(Head(path)) + ByteSum(Tail(path))

PickFresh(path, files) ==
    LET used == GetUsedColors(files)
        free == {i \in 1..Len(COLOR_PALETTE) : COLOR_PALETTE[i] \notin used}
    IN  IF free # {}
        THEN COLOR_PALETTE[CHOOSE i \in free : \A j \in free : i <= j]
        ELSE COLOR_PALETTE[(ByteSum(path) % Len(COLOR_PALETTE)) + 1]

PickAvailableColor_NoReuse(path, files) == PickFresh(path, files)

\* pick_available_color
PickAvailableColor(path, files) ==
    IF HasColor(path, files)
    THEN GetWorktreeColor(path, files)
    ELSE PickFresh(path, files)

NoColor == <<>>
Invocations == 1..NumInvocations

\* An invocation reaches `let bg_color = pick_available_color(&final_path)`.
\* Invocations are interchangeable: they are numbered in the order in which
\* they get here.
Pick(i, path) ==
    /\ inv[i].pc = "idle"
    /\ \A j \in 1..(i - 1) : inv[j].pc # "idle"
    /\ LET c == PickAvailableColor(path, colorFiles) IN
         /\ inv' = [inv EXCEPT ![i] = [pc |-> "picked", path |-> path, color |-> c]]
         /\ prevPick' = [prevPick EXCEPT ![path] = lastPick[path]]
         /\ lastPick' = [lastPick EXCEPT ![path] = c]
         /\ kept' = [kept EXCEPT ![path] = fileAtLast[path] # NoColor]
         /\ fileAtLast' = [fileAtLast EXCEPT ![path] =
                IF HasColor(path, colorFiles)
                THEN colorFiles[WorktreeColorFile(path)] ELSE NoColor]
         /\ between' = [between EXCEPT ![path] = writesSince[path]]
         /\ writesSince' = [writesSince EXCEPT ![path] = 0]
    /\ UNCHANGED <<colorFiles, startFill, removed>>
    /\ UNCHANGED notColor

\* What a write of `content` to the file `name` does to the histories: a path
\* whose file is created or changed has no unchanged file any more.
AfterWrite(name, content) ==
    [q \in WorktreePaths |->
        IF WorktreeColorFile(q) = name /\ fileAtLast[q] # content
        THEN NoColor ELSE fileAtLast[q]]

\* save_worktree_color(&final_path, &bg_color)? succeeds.
Save(i) ==
    /\ inv[i].pc = "picked"
    /\ LET name == WorktreeColorFile(inv[i].path) IN
         /\ colorFiles' = [n \in DOMAIN colorFiles \cup {name} |->
                              IF n = name THEN inv[i].color ELSE colorFiles[n]]
         /\ fileAtLast' = AfterWrite(name, inv[i].color)
         /\ writesSince' = [q \in WorktreePaths |->
                IF WorktreeColorFile(q) # name /\ lastPick[q] # NoColor
                THEN writesSince[q] + 1 ELSE writesSince[q]]
    /\ inv' = [inv EXCEPT ![i].pc = "saved"]
    /\ UNCHANGED <<startFill, removed, prevPick, lastPick, kept, between>>
    /\ UNCHANGED notColor

\* save_worktree_color fails (create_dir_all or write): run returns Err.
SaveFails(i) ==
    /\ inv[i].pc = "picked"
    /\ inv' = [inv EXCEPT ![i].pc = "failed"]
    /\ UNCHANGED <<colorFiles, startFill, removed, prevPick, lastPick,
                   fileAtLast, kept, writesSince, between>>
    /\ UNCHANGED notColor

\* run_clean removed the worktree `path`: fs::remove_file(color_file).
CleanRemovesColor(path) ==
    /\ removed < MaxRemovals
    /\ HasColor(path, colorFiles)
    /\ LET name == WorktreeColorFile(path)
           gone(q) == WorktreeColorFile(q) = name
       IN
         /\ colorFiles' = [n \in DOMAIN colorFiles \ {name} |-> colorFiles[n]]
         /\ prevPick' = [q \in WorktreePaths |-> IF gone(q) THEN NoColor ELSE prevPick[q]]
         /\ lastPick' = [q \in WorktreePaths |-> IF gone(q) THEN NoColor ELSE lastPick[q]]
         /\ fileAtLast' = [q \in WorktreePaths |-> IF gone(q) THEN NoColor ELSE fileAtLast[q]]
         /\ kept' = [q \in WorktreePaths |-> IF gone(q) THEN FALSE ELSE kept[q]]
         /\ writesSince' = [q \in WorktreePaths |-> IF gone(q) THEN 0 ELSE writesSince[q]]
         /\ between' = [q \in WorktreePaths |-> IF gone(q) THEN 0 ELSE between[q]]
    /\ removed' = removed + 1
    /\ UNCHANGED <<inv, startFill>>
    /\ UNCHANGED notColor

\* pick_available_color then save_worktree_color, as run_pr and run_branch
\* call them, by an invocation that runs alone.
Decorated(files, path) ==
    [n \in DOMAIN files \cup {WorktreeColorFile(path)} |->
        IF n = WorktreeColorFile(path)
        THEN PickAvailableColor(path, files) ELSE files[n]]

RECURSIVE DecoratedAll(_, _)
DecoratedAll(files, paths) ==
    IF paths = <<>> THEN files
    ELSE DecoratedAll(Decorated(files, Head(paths)), Tail(paths))

\* The directory at the start: what decorating some worktrees one after the
\* other leaves in an empty directory. The worktrees are none or one of
\* WorktreePaths followed by no others, or by so many that one palette color
\* or none is left.
NoFiles == [n \in {} |-> NoColor]
OtherNames == <<"c", "d", "e", "f", "g", "h", "i", "j", "k", "l", "m", "n">>
OtherPath(k) == <<"/", "w", "/", OtherNames[k]>>
StartSequences ==
    { pre \o [k \in 1..others |-> OtherPath(k)] :
        pre \in {<<>>, << <<"/","w","/","a">> >>},
        others \in {0, Len(COLOR_PALETTE) - 1, Len(COLOR_PALETTE)} }
StartDirectories ==
    { DecoratedAll(NoFiles, q) : q \in {r \in StartSequences : Len(r) <= Len(COLOR_PALETTE)} }

IdleInv == [i \in Invocations |-> [pc |-> "idle", path |-> <<>>, color |-> NoColor]]
NoHistory == [q \in WorktreePaths |-> NoColor]
NoCount == [q \in WorktreePaths |-> 0]

InitColor ==
    /\ colorFiles \in StartDirectories
    /\ startFill = Cardinality(DOMAIN colorFiles)
    /\ inv = IdleInv
    /\ removed = 0
    /\ prevPick = NoHistory
    /\ lastPick = NoHistory
    /\ fileAtLast = NoHistory
    /\ kept = [q \in WorktreePaths |-> FALSE]
    /\ writesSince = NoCount
    /\ between = NoCount

NextColor ==
    \/ \E i \in Invocations, path \in WorktreePaths : Pick(i, path)
    \/ \E i \in Invocations : Save(i)
    \/ \E i \in Invocations : SaveFails(i)
    \/ \E path \in WorktreePaths : CleanRemovesColor(path)

---------------------------------------------------------------------------
(* extract_pr_number(input). Integers of type u64 are decimal numerals      *)
(* without leading zeros (sequences of digit characters), so that values up *)
(* to and beyond u64::MAX can be told apart.                                *)

MaxPieces == 3

\* u64::MAX = 18446744073709551615
U64_MAX ==
    <<"1", "8", "4", "4", "6", "7", "4", "4", "0", "7", "3", "7", "0", "9",
      "5", "5", "1", "6", "1", "5">>

AsciiDigits == <<"0", "1", "2", "3", "4", "5", "6", "7", "8", "9">>
IsAsciiDigit(c) == \E v \in 1..Len(AsciiDigits) : AsciiDigits[v] = c
DigitValue(c) == (CHOOSE v \in 1..Len(AsciiDigits) : AsciiDigits[v] = c) - 1

\* The regex crate's \d is Unicode-aware: it matches every decimal digit of
\* general category Nd, such as U+0663 (ARABIC-INDIC DIGIT THREE).
IsRegexDigit(c) == IsAsciiDigit(c) \/ c = "U+0663"

Zero == <<"0">>

\* result * 10 + digit on numerals.
MulAdd(acc, c) == IF acc = Zero THEN <<c>> ELSE Append(acc, c)

\* checked_mul / checked_add overflow: the numeral exceeds u64::MAX.
Overflows(n) ==
    \/ Len(n) > Len(U64_MAX)
    \/ /\ Len(n) = Len(U64_MAX)
       /\ \E i \in 1..Len(n) :
            /\ DigitValue(n[i]) > DigitValue(U64_MAX[i])
            /\ \A j \in 1..(i - 1) : n[j] = U64_MAX[j]

ParseOk(n) == [ok |-> TRUE, value |-> n]
ParseErr == [ok |-> FALSE, value |-> <<>>]

RECURSIVE ParseDigits(_, _)
ParseDigits(digits, acc) ==
    IF digits = <<>> THEN ParseOk(acc)
    ELSE IF ~IsAsciiDigit(Head(digits)) THEN ParseErr
    ELSE LET next == MulAdd(acc, Head(digits))
         IN  IF Overflows(next) THEN ParseErr
             ELSE ParseDigits(Tail(digits), next)

\* str::parse::<u64> without the leading sign u64::from_str accepts.
ParseU64_NoSign(s) ==
    IF s = <<>> THEN ParseErr ELSE ParseDigits(s, Zero)

\* str::parse::<u64>: empty input and a lone sign are errors, one leading
\* "+" is skipped, "-" is no digit of an unsigned type.
ParseU64(s) ==
    IF s = <<>> THEN ParseErr
    ELSE IF s = <<"+">> \/ s = <<"-">> THEN ParseErr
    ELSE ParseDigits(IF Head(s) = "+" THEN Tail(s) ELSE s, Zero)

PullPrefix == <<"/", "p", "u", "l", "l", "/">>

\* The regex /pull/(\d+) matches at position i.
MatchesAt(s, i) ==
    /\ i + Len(PullPrefix) <= Len(s)
    /\ SubSeq(s, i, i + Len(PullPrefix) - 1) = PullPrefix
    /\ IsRegexDigit(s[i + Len(PullPrefix)])

HasMatch(s) == \E i \in 1..Len(s) : MatchesAt(s, i)

\* captures() reports the leftmost match.
FirstMatch(s) ==
    CHOOSE i \in 1..Len(s) :
        MatchesAt(s, i) /\ \A j \in 1..(i - 1) : ~MatchesAt(s, j)

\* \d+ is greedy: the longest run of digits.
RECURSIVE DigitRun(_)
DigitRun(s) ==
    IF s # <<>> /\ IsRegexDigit(Head(s))
    THEN <<Head(s)>> \o DigitRun(Tail(s))
    ELSE <<>>

Capture1(s) == DigitRun(SubSeq(s, FirstMatch(s) + Len(PullPrefix), Len(s)))

Ok(n) == [ok |-> TRUE, value |-> n, message |-> <<>>]
Err(parts) == [ok |-> FALSE, value |-> <<>>, message |-> parts]

\* The two error messages, as the pieces format! puts together.
FailedToParse == <<<<"Failed to parse PR number">>>>
CouldNotParse(s) ==
    <<<<"Could not parse PR number from '">>, s,
      <<"'. Expected a number or GitHub PR URL.">>>>

extract_pr_number(s) ==
    IF ParseU64(s).ok THEN Ok(ParseU64(s).value)
    ELSE IF HasMatch(s)
    THEN LET m == ParseU64(Capture1(s))
         IN  IF m.ok THEN Ok(m.value) ELSE Err(FailedToParse)
    ELSE Err(CouldNotParse(s))

NoResult == Err(<<>>)

\* Arguments: up to MaxPieces pieces put one after the other.
Pieces ==
    { <<"0">>, <<"4">>, <<"+">>, <<"-">>, <<"x">>, <<"U+0663">>,
      PullPrefix, <<"/", "p", "u", "l", "l">>,
      U64_MAX, SubSeq(U64_MAX, 1, Len(U64_MAX) - 1) \o <<"6">> }

RECURSIVE Concat(_)
Concat(ps) == IF ps = <<>> THEN <<>> ELSE Head(ps) \o Concat(Tail(ps))

Inputs == { Concat(ps) : ps \in UNION { [1..k -> Pieces] : k \in 0..MaxPieces } }

\* run_pr: let pr_number = extract_pr_number(pr)
ExtractPrNumber ==
    /\ ppc = "start"
    /\ result' = extract_pr_number(input)
    /\ ppc' = "done"
    /\ UNCHANGED <<input, notParse>>

InitParse == input \in Inputs /\ ppc = "start" /\ result = NoResult

NextParse == ExtractPrNumber

---------------------------------------------------------------------------
(* create_slug(title).                                                     *)

MaxTitleLen == 4
MaxWords == 6
MaxCalls == 2

\* char::is_alphanumeric for the characters of the model's alphabets; the
\* combining dot U+0307 is a mark, neither alphabetic nor numeric.
IsAlphanumeric(c) ==
    c \in {"A", "a", "B", "b", "N", "n", "Y", "y", "i", "I+dot", "0", "1"}

\* title.find(": ") and the slice after it.
HasSeparator(s) == \E i \in 1..(Len(s) - 1) : s[i] = ":" /\ s[i + 1] = " "
\* find returning the last occurrence instead of the first.
FindSeparator_Last(s) ==
    CHOOSE i \in 1..(Len(s) - 1) :
        /\ s[i] = ":" /\ s[i + 1] = " "
        /\ \A j \in (i + 1)..(Len(s) - 1) : ~(s[j] = ":" /\ s[j + 1] = " ")

FindSeparator(s) ==
    CHOOSE i \in 1..(Len(s) - 1) :
        /\ s[i] = ":" /\ s[i + 1] = " "
        /\ \A j \in 1..(i - 1) : ~(s[j] = ":" /\ s[j + 1] = " ")
WithoutPrefix(s) ==
    IF HasSeparator(s) THEN SubSeq(s, FindSeparator(s) + 2, Len(s)) ELSE s

\* .chars().map(|c| if c.is_alphanumeric() { c } else { '-' })
MapChars(s) == [i \in 1..Len(s) |-> IF IsAlphanumeric(s[i]) THEN s[i] ELSE "-"]

\* Regex -+ replaced by "-" everywhere.
RECURSIVE CollapseHyphens(_)
CollapseHyphens(s) ==
    IF s = <<>> THEN <<>>
    ELSE IF Head(s) = "-" /\ Len(s) > 1 /\ s[2] = "-"
    THEN CollapseHyphens(Tail(s))
    ELSE <<Head(s)>> \o CollapseHyphens(Tail(s))

RECURSIVE TrimMatches(_, _)
TrimMatches(s, c) ==
    IF s # <<>> /\ Head(s) = c THEN TrimMatches(Tail(s), c)
    ELSE IF s # <<>> /\ s[Len(s)] = c
    THEN TrimMatches(SubSeq(s, 1, Len(s) - 1), c)
    ELSE s

\* str::split: the pieces between the separators, empty ones included.
RECURSIVE Split(_, _)
Split(s, c) ==
    IF \A i \in 1..Len(s) : s[i] # c THEN <<s>>
    ELSE LET k == CHOOSE i \in 1..Len(s) :
                      s[i] = c /\ \A j \in 1..(i - 1) : s[j] # c
         IN  <<SubSeq(s, 1, k - 1)>> \o Split(SubSeq(s, k + 1, Len(s)), c)

RECURSIVE NonEmpty(_)
NonEmpty(segs) ==
    IF segs = <<>> THEN <<>>
    ELSE IF Head(segs) = <<>> THEN NonEmpty(Tail(segs))
    ELSE <<Head(segs)>> \o NonEmpty(Tail(segs))

SlugSegments == 4

Take(segs, n) == SubSeq(segs, 1, IF Len(segs) < n THEN Len(segs) ELSE n)

RECURSIVE Join(_, _)
Join(segs, c) ==
    IF segs = <<>> THEN <<>>
    ELSE IF Len(segs) = 1 THEN Head(segs)
    ELSE Head(segs) \o <<c>> \o Join(Tail(segs), c)

\* From the regex replacement to the join.
Segmented(slug) ==
    Join(Take(NonEmpty(Split(TrimMatches(CollapseHyphens(slug), "-"), "-")),
              SlugSegments), "-")

\* create_slug with the characters mapped before they are lowered.
create_slug_LowerLast(t) == Segmented(ToLowercase(MapChars(WithoutPrefix(t))))

create_slug(t) == Segmented(MapChars(ToLowercase(WithoutPrefix(t))))

\* Titles: every string of up to MaxTitleLen characters, and up to MaxWords
\* words with a separator between each two.
TitleChars == {"A", "b", "1", ":", " ", "-", "I+dot"}
ShortTitles == UNION { [1..k -> TitleChars] : k \in 0..MaxTitleLen }
Words == { <<"A">>, <<"b", "1">> }
Separators == { <<"-">>, <<":", " ">> }

RECURSIVE Interleave(_, _)
Interleave(ws, seps) ==
    IF Len(ws) = 1 THEN Head(ws)
    ELSE Head(ws) \o Head(seps) \o Interleave(Tail(ws), Tail(seps))

WordTitles ==
    UNION { { Interleave(ws, seps) :
                ws \in [1..n -> Words], seps \in [1..(n - 1) -> Separators] } :
            n \in 2..MaxWords }

Titles == ShortTitles \union WordTitles

\* The text the next call is given: the title, then the slug last returned.
CurrentText == IF slugs = <<>> THEN title ELSE slugs[Len(slugs)]

CreateSlug ==
    /\ Len(slugs) < MaxCalls
    /\ slugs' = Append(slugs, create_slug(CurrentText))
    /\ UNCHANGED <<title, notSlug>>

InitSlug == title \in Titles /\ slugs = <<>>

NextSlug == CreateSlug

---------------------------------------------------------------------------
(* run_clean(repo, skip_confirm), with get_all_worktrees and, in main, the  *)
(* exit status.                                                             *)

Root == "root"
LinkedWorktrees == {"wt-a", "wt-b"}

\* The order in which git lists the working trees, which is also the order
\* of their paths.
ListedOrder == <<Root, "wt-a", "wt-b">>

\* main: Err(e) is printed after "error:" and the process exits with 1;
\* Ok(()) lets main return.
ReturnErr(e) ==
    /\ kreported' = Append(kreported, <<"error:", e>>)
    /\ kexit' = 1
    /\ kpc' = "exited"
ReturnOk ==
    /\ kexit' = 0
    /\ kpc' = "exited"

\* HOME, repo_root.exists()
CleanStart ==
    /\ kpc = "start"
    /\ \E r \in {"no_home", "no_repo", "ok"} :
         IF r = "ok"
         THEN kpc' = "list" /\ UNCHANGED <<kreported, kexit>>
         ELSE ReturnErr(r)
    /\ UNCHANGED <<decorated, skip_confirm, present, dirty, kcolors,
                   worktrees, clean_worktrees, kidx, removed_count, failed,
                   klog, answer>>
    /\ UNCHANGED notClean

StatusResults == {"ok", "git_failed", "spawn_err"}

\* The records get_all_worktrees keeps: every listed path but repo_root
\* (the main repository is listed under the path held in repo_root).
Listed(paths) ==
    SelectSeq(ListedOrder, LAMBDA p : p \in paths /\ p # Root)

\* has_uncommitted_changes(&path).unwrap_or(false): the answer of git
\* status when it ran, false when it failed or could not be spawned.
HasChangesOrFalse(p, r) == IF r = "ok" THEN p \in dirty ELSE FALSE

StatusLog(ps, st) ==
    [i \in 1..Len(ps) |-> [cmd |-> "status", path |-> ps[i], result |-> st[ps[i]]]]

\* get_all_worktrees: git worktree list --porcelain, whose exit status is
\* not looked at, then one status query per record kept.
CleanList ==
    /\ kpc = "list"
    /\ \E r \in {"ok", "git_failed", "spawn_err"} :
         \E st \in [LinkedWorktrees \cup {Root} -> StatusResults] :
           LET ps == IF r = "ok" THEN Listed(present \cup {Root}) ELSE <<>>
               entry == [cmd |-> "list", path |-> Root, result |-> r]
           IN  /\ \A p \in LinkedWorktrees \cup {Root} :
                    (\A i \in 1..Len(ps) : ps[i] # p) => st[p] = "ok"
               /\ IF r = "spawn_err"
                  THEN /\ ReturnErr("Failed to list worktrees")
                       /\ klog' = Append(klog, entry)
                       /\ UNCHANGED worktrees
                  ELSE /\ worktrees' =
                            [i \in 1..Len(ps) |->
                               [path |-> ps[i],
                                has_changes |-> HasChangesOrFalse(ps[i], st[ps[i]])]]
                       /\ klog' = Append(klog, entry) \o StatusLog(ps, st)
                       /\ kpc' = "select"
                       /\ UNCHANGED <<kreported, kexit>>
    /\ UNCHANGED <<decorated, skip_confirm, present, dirty, kcolors,
                   clean_worktrees, kidx, removed_count, failed, answer>>
    /\ UNCHANGED notClean

\* The filter on !has_changes and the early return when nothing is left.
CleanSelect ==
    /\ kpc = "select"
    /\ clean_worktrees' = SelectSeq(worktrees, LAMBDA w : ~w.has_changes)
    /\ IF clean_worktrees' = <<>>
       THEN ReturnOk /\ UNCHANGED kreported
       ELSE /\ kpc' = (IF skip_confirm THEN "remove" ELSE "confirm")
            /\ UNCHANGED <<kreported, kexit>>
    /\ UNCHANGED <<decorated, skip_confirm, present, dirty, kcolors,
                   worktrees, kidx, removed_count, failed, klog, answer>>
    /\ UNCHANGED notClean

\* if !skip_confirm: one read_line; anything but y/Y after trimming cancels.
CleanConfirm ==
    /\ kpc = "confirm"
    /\ \E x \in Lines \cup {AtEof, IoError} :
         /\ answer' = x
         /\ IF x = IoError THEN ReturnErr("Failed to read input")
            ELSE IF ToLowercase(Trim(x)) # <<"y">>
            THEN ReturnOk /\ UNCHANGED kreported
            ELSE kpc' = "remove" /\ UNCHANGED <<kreported, kexit>>
    /\ UNCHANGED <<decorated, skip_confirm, present, dirty, kcolors,
                   worktrees, clean_worktrees, kidx, removed_count, failed,
                   klog>>
    /\ UNCHANGED notClean

\* What git worktree remove <path> can answer: it refuses the main working
\* tree and a working tree with changes; it may refuse any other too.
RemoveResults(p) ==
    IF p = Root \/ p \in dirty THEN {"refused", "spawn_err"}
    ELSE {"ok", "refused", "spawn_err"}

\* The removal loop without the deletion of the color file.
ColorsAfterRemoval_Kept(colors, p) == colors

\* let _ = fs::remove_file(worktree_color_file(&wt.path)): the file named
\* after the worktree is deleted; the call's result is discarded.
ColorsAfterRemoval(colors, p) == colors \ {p}

\* One pass of the removal loop.
CleanRemove ==
    /\ kpc = "remove" /\ kidx <= Len(clean_worktrees)
    /\ LET p == clean_worktrees[kidx].path
       IN  \E r \in RemoveResults(p) :
             /\ klog' = Append(klog, [cmd |-> "remove", path |-> p, result |-> r])
             /\ CASE r = "spawn_err" ->
                       /\ ReturnErr("Failed to remove worktree")
                       /\ UNCHANGED <<present, kcolors, kidx, removed_count, failed>>
                  [] r = "ok" ->
                       /\ present' = present \ {p}
                       /\ kcolors' = ColorsAfterRemoval(kcolors, p)
                       /\ removed_count' = removed_count + 1
                       /\ kidx' = kidx + 1
                       /\ UNCHANGED <<failed, kreported, kexit, kpc>>
                  [] r = "refused" ->
                       /\ failed' = Append(failed, p)
                       /\ kreported' = Append(kreported, <<"failed", p>>)
                       /\ kidx' = kidx + 1
                       /\ UNCHANGED <<present, kcolors, removed_count, kexit, kpc>>
    /\ UNCHANGED <<decorated, skip_confirm, dirty, worktrees,
                   clean_worktrees, answer>>
    /\ UNCHANGED notClean

\* After the loop: the summary lines and Ok(()).
CleanFinish ==
    /\ kpc = "remove" /\ kidx > Len(clean_worktrees)
    /\ kreported' = (IF failed # <<>>
                     THEN Append(kreported, <<"Failed to remove", failed>>)
                     ELSE kreported)
    /\ kexit' = 0
    /\ kpc' = "exited"
    /\ UNCHANGED <<decorated, skip_confirm, present, dirty, kcolors,
                   worktrees, clean_worktrees, kidx, removed_count, failed,
                   klog, answer>>
    /\ UNCHANGED notClean

\* A pr or branch invocation that runs between two clean invocations up to
\* its decoration: the worktree p exists by then (created, or found and
\* used), and save_worktree_color has written its color file. The user
\* may have left changes in it, or none.
DecorateWorktree(p) ==
    /\ kpc = "exited"
    /\ present' = present \cup {p}
    /\ kcolors' = kcolors \cup {p}
    /\ decorated' = decorated \cup {p}
    /\ \E d \in BOOLEAN : dirty' = (IF d THEN dirty \cup {p} ELSE dirty \ {p})
    /\ UNCHANGED <<skip_confirm, worktrees, clean_worktrees, kidx,
                   removed_count, failed, klog, answer, kreported, kexit, kpc>>
    /\ UNCHANGED notClean

\* The next clean invocation starts.
CleanAgain ==
    /\ kpc = "exited"
    /\ kpc' = "start"
    /\ skip_confirm' \in BOOLEAN
    /\ worktrees' = <<>> /\ clean_worktrees' = <<>> /\ kidx' = 1
    /\ removed_count' = 0 /\ failed' = <<>> /\ klog' = <<>>
    /\ answer' = Unread /\ kreported' = <<>> /\ kexit' = NoExit
    /\ UNCHANGED <<decorated, present, dirty, kcolors>>
    /\ UNCHANGED notClean

\* The worktrees that exist at the start were decorated when they were
\* made, or made with --no-claude and not decorated.
InitClean ==
    /\ kpc = "start"
    /\ skip_confirm \in BOOLEAN
    /\ present \in SUBSET LinkedWorktrees
    /\ dirty \in SUBSET (present \cup {Root})
    /\ kcolors \in SUBSET present
    /\ decorated = kcolors
    /\ worktrees = <<>> /\ clean_worktrees = <<>> /\ kidx = 1
    /\ removed_count = 0 /\ failed = <<>> /\ klog = <<>>
    /\ answer = Unread /\ kreported = <<>> /\ kexit = NoExit

NextClean ==
    \/ CleanStart
    \/ CleanList
    \/ CleanSelect
    \/ CleanConfirm
    \/ CleanRemove
    \/ CleanFinish
    \/ \E p \in LinkedWorktrees : DecorateWorktree(p)
    \/ CleanAgain

---------------------------------------------------------------------------
(* create_new_worktree_from_remote and create_new_worktree_new_branch:     *)
(* one action per step, each with the results its command can have.        *)

NoError == "none"

\* A command's results: exit status 0, another exit status, or the program
\* could not be started.
CommandResults == {"ok", "failed", "spawn_err"}

Logged(step, r) == Append(vlog, [step |-> step, result |-> r])

\* `?` on an Err: the function returns it and nothing more runs.
Abort(e) == vpc' = "err" /\ verr' = e

\* std::fs::create_dir_all(worktree_dir)
ProvMkdir ==
    /\ vpc = "mkdir"
    /\ \E r \in {"ok", "failed"} :
         /\ vlog' = Logged("mkdir", r)
         /\ IF r = "ok" THEN vpc' = "fetch" /\ UNCHANGED verr
            ELSE Abort("Failed to create worktrees dir")
    /\ UNCHANGED <<vkind, miseFound, gtFound, settings>>
    /\ UNCHANGED notProv

\* fetch_branch(repo_root, branch) and fetch_branch(repo_root, "master")
ProvFetch ==
    /\ vpc = "fetch"
    /\ \E r \in CommandResults :
         /\ vlog' = Logged("fetch", r)
         /\ CASE r = "ok" -> vpc' = "add" /\ UNCHANGED verr
              [] r = "failed" -> Abort("git fetch failed")
              [] r = "spawn_err" -> Abort("Failed to fetch")
    /\ UNCHANGED <<vkind, miseFound, gtFound, settings>>
    /\ UNCHANGED notProv

\* What follows a git worktree add that exits with a failure: in
\* create_worktree_from_ref the second attempt, in
\* create_worktree_new_branch the error.
AfterFailedAdd_NoRetry(kind) == "err"

AfterFailedAdd(kind) == IF kind = "remote" THEN "add_fetch_head" ELSE "err"

\* git worktree add <path> origin/<branch>, or with -b <branch> origin/master
ProvAdd ==
    /\ vpc = "add"
    /\ \E r \in CommandResults :
         /\ vlog' = Logged(IF vkind = "remote" THEN "add origin/branch"
                           ELSE "add -b origin/master", r)
         /\ CASE r = "ok" -> vpc' = "mise" /\ UNCHANGED verr
              [] r = "spawn_err" -> Abort("Failed to create worktree")
              [] r = "failed" ->
                   IF AfterFailedAdd(vkind) = "err"
                   THEN Abort("git worktree add failed")
                   ELSE vpc' = AfterFailedAdd(vkind) /\ UNCHANGED verr
    /\ UNCHANGED <<vkind, miseFound, gtFound, settings>>
    /\ UNCHANGED notProv

\* create_worktree_from_ref: git worktree add <path> FETCH_HEAD
ProvAddFetchHead ==
    /\ vpc = "add_fetch_head"
    /\ \E r \in CommandResults :
         /\ vlog' = Logged("add FETCH_HEAD", r)
         /\ CASE r = "ok" -> vpc' = "mise" /\ UNCHANGED verr
              [] r = "failed" -> Abort("git worktree add failed")
              [] r = "spawn_err" ->
                   Abort("Failed to create worktree with FETCH_HEAD")
    /\ UNCHANGED <<vkind, miseFound, gtFound, settings>>
    /\ UNCHANGED notProv

\* if which_mise().is_some() { run_mise_trust(worktree_path)? }
ProvMiseTrust ==
    /\ vpc = "mise"
    /\ LET next == IF vkind = "remote" THEN "settings" ELSE "gt"
       IN  IF ~miseFound
           THEN /\ vlog' = Logged("mise trust", "skipped")
                /\ vpc' = next /\ UNCHANGED verr
           ELSE \E r \in {"ok", "failed"} :
                  /\ vlog' = Logged("mise trust", r)
                  /\ IF r = "ok" THEN vpc' = next /\ UNCHANGED verr
                     ELSE Abort("mise trust failed")
    /\ UNCHANGED <<vkind, miseFound, gtFound, settings>>
    /\ UNCHANGED notProv

\* What Command::new("gt").status() gives: gt's exit status when gt is
\* installed, an error of the spawn when it is not.
GtResults(found) == IF found THEN {"ok", "failed"} ELSE {"spawn_err"}

\* run_gt_track(worktree_path)?
ProvGtTrack ==
    /\ vpc = "gt"
    /\ \E r \in GtResults(gtFound) :
         /\ vlog' = Logged("gt track", r)
         /\ CASE r = "ok" -> vpc' = "settings" /\ UNCHANGED verr
              [] r = "failed" -> Abort("gt track failed")
              [] r = "spawn_err" -> Abort("Failed to run gt track")
    /\ UNCHANGED <<vkind, miseFound, gtFound, settings>>
    /\ UNCHANGED notProv

\* copy_claude_settings: the repository's file, else the global one, else
\* nothing to do.
ProvCopySettings ==
    /\ vpc = "settings"
    /\ IF settings = "none"
       THEN /\ vlog' = Logged("copy settings", "skipped")
            /\ vpc' = "trust" /\ UNCHANGED verr
       ELSE \E r \in {"ok", "failed"} :
              /\ vlog' = Logged("copy settings", r)
              /\ IF r = "ok" THEN vpc' = "trust" /\ UNCHANGED verr
                 ELSE Abort("Failed to copy claude settings")
    /\ UNCHANGED <<vkind, miseFound, gtFound, settings>>
    /\ UNCHANGED notProv

\* add_claude_trust(worktree_path, repo_root)?
ProvAddTrust ==
    /\ vpc = "trust"
    /\ \E r \in {"ok", "failed"} :
         /\ vlog' = Logged("add trust", r)
         /\ IF r = "ok" THEN vpc' = "ok" /\ UNCHANGED verr
            ELSE Abort("Failed to write .claude.json")
    /\ UNCHANGED <<vkind, miseFound, gtFound, settings>>
    /\ UNCHANGED notProv

InitProv ==
    /\ vkind \in {"remote", "new_branch"}
    /\ vpc = "mkdir"
    /\ miseFound \in BOOLEAN
    /\ gtFound \in BOOLEAN
    /\ settings \in {"repo", "global", "none"}
    /\ vlog = <<>>
    /\ verr = NoError

NextProv ==
    \/ ProvMkdir
    \/ ProvFetch
    \/ ProvAdd
    \/ ProvAddFetchHead
    \/ ProvMiseTrust
    \/ ProvGtTrack
    \/ ProvCopySettings
    \/ ProvAddTrust

---------------------------------------------------------------------------
(* add_claude_trust(worktree_path, repo_root). A JSON object is a function  *)
(* from its keys to its values; values are written as their JSON text.      *)

\* The keys add_claude_trust removes from the new entry.
SessionFields ==
    { "lastAPIDuration", "lastAPIDurationWithoutRetries", "lastCost",
      "lastDuration", "lastLinesAdded", "lastLinesRemoved", "lastModelUsage",
      "lastSessionId", "lastToolDuration",
      "lastTotalCacheCreationInputTokens", "lastTotalCacheReadInputTokens",
      "lastTotalInputTokens", "lastTotalOutputTokens",
      "lastTotalWebSearchRequests", "exampleFiles", "exampleFilesGeneratedAt" }

\* The settings used when the main repository has no entry.
DefaultTemplate ==
    [ allowedTools |-> "[]", mcpContextUris |-> "[]", mcpServers |-> "{}",
      enabledMcpjsonServers |-> "[]", disabledMcpjsonServers |-> "[]",
      projectOnboardingSeenCount |-> "0",
      hasClaudeMdExternalIncludesApproved |-> "false",
      hasClaudeMdExternalIncludesWarningShown |-> "false",
      reactVulnerabilityCache |->
          "{detected:false,package:null,packageName:null,version:null,packageManager:null}" ]

\* obj[key] = value.
Put(obj, key, value) ==
    [k \in DOMAIN obj \cup {key} |-> IF k = key THEN value ELSE obj[k]]

BaseSettings(projs, repo) ==
    IF repo \in DOMAIN projs THEN projs[repo] ELSE DefaultTemplate

\* The new entry with the session fields left in.
NewProject_Unstripped(projs, repo) ==
    Put(BaseSettings(projs, repo), "hasTrustDialogAccepted", "true")

\* The base settings with the trust flag put and each session key removed.
NewProject(projs, repo) ==
    LET trusted == Put(BaseSettings(projs, repo), "hasTrustDialogAccepted", "true")
    IN  [k \in DOMAIN trusted \ SessionFields |-> trusted[k]]

RepoRoot == "/home/u/figma/figma"
NewWorktree == "/home/u/figma-worktrees/pr-42-fix"
OtherProject == "/home/u/other"

NoProjects == [k \in {} |-> DefaultTemplate]

\* Entries as they are found in the file: some of these keys, with the
\* trust flag true or false when it is there.
Entries ==
    UNION { { Put([k \in keys |-> k], "hasTrustDialogAccepted", t) : t \in {"true", "false"} }
            \cup { [k \in keys |-> k] } :
            keys \in SUBSET {"lastCost", "exampleFiles", "custom"} }

\* The main repository's entry is any of Entries; the worktree's path and
\* another project may be listed too.
StartProjects ==
    { [k \in DOMAIN f |-> f[k]] :
        f \in UNION { { g \in [ks -> Entries] :
                          \A k \in ks \ {RepoRoot} :
                              g[k] \in { [custom |-> "custom"],
                                         [hasTrustDialogAccepted |-> "false",
                                          lastCost |-> "lastCost"] } } :
                        ks \in SUBSET {RepoRoot, NewWorktree, OtherProject} } }

\* The file is read when it exists, the entry is put and the file written.
AddClaudeTrust ==
    /\ tpc = "start"
    /\ \E r \in {"ok", "read_err", "parse_err", "write_err"} :
         /\ r \in {"read_err", "parse_err"} => claudeJson
         /\ IF r = "ok"
            THEN /\ projects' = Put(projects, NewWorktree,
                                    NewProject(projects, RepoRoot))
                 /\ claudeJson' = TRUE
                 /\ tpc' = "ok"
            ELSE /\ tpc' = "err"
                 /\ UNCHANGED <<projects, claudeJson>>
    /\ UNCHANGED before
    /\ UNCHANGED notTrust

InitTrust ==
    /\ tpc = "start"
    /\ claudeJson \in BOOLEAN
    /\ projects \in StartProjects
    /\ ~claudeJson => projects = NoProjects
    /\ before = projects

NextTrust == AddClaudeTrust

---------------------------------------------------------------------------
(* Specifications: one per subsystem, the others idle.                     *)

IdleIterm == InitIterm
IdleRun ==
    /\ cmd = "pr" /\ rpc = "idle" /\ wt = [dirty |-> FALSE, tip |-> "local"]
    /\ has_changes = FALSE /\ action = "none" /\ final_path = "none"
    /\ cmds = <<>> /\ reads = 0 /\ eof = FALSE
    /\ lastMenu = Unread /\ lastConfirm = Unread /\ cancelled = 0
    /\ menuTick = 0

IdlePath ==
    /\ existing = {} /\ suffix = FirstSuffix /\ fpc = "idle" /\ tried = 0
    /\ returned = NoPath

IdleColor ==
    /\ startFill = 0 /\ colorFiles = NoFiles /\ removed = 0
    /\ inv = [i \in Invocations |-> [pc |-> "off", path |-> <<>>, color |-> NoColor]]
    /\ prevPick = NoHistory /\ lastPick = NoHistory /\ fileAtLast = NoHistory
    /\ kept = [q \in WorktreePaths |-> FALSE]
    /\ writesSince = NoCount /\ between = NoCount

IdleParse == input = <<>> /\ ppc = "idle" /\ result = NoResult

IdleSlug == title = <<>> /\ slugs = <<>>

IdleTrust ==
    /\ tpc = "idle" /\ claudeJson = FALSE /\ projects = NoProjects
    /\ before = NoProjects

IdleProv ==
    /\ vkind = "remote" /\ vpc = "idle" /\ miseFound = FALSE /\ gtFound = FALSE
    /\ settings = "none" /\ vlog = <<>> /\ verr = NoError

IdleClean ==
    /\ kpc = "idle" /\ skip_confirm = FALSE /\ decorated = {}
    /\ present = {} /\ dirty = {} /\ kcolors = {}
    /\ worktrees = <<>> /\ clean_worktrees = <<>> /\ kidx = 1
    /\ removed_count = 0 /\ failed = <<>> /\ klog = <<>>
    /\ answer = Unread /\ kreported = <<>> /\ kexit = NoExit

InitSpecIterm ==
    /\ InitIterm /\ IdleRun /\ IdlePath /\ IdleColor /\ IdleParse /\ IdleSlug
    /\ IdleClean /\ IdleProv /\ IdleTrust
SpecIterm == InitSpecIterm /\ [][NextIterm]_vars

InitSpecRun ==
    /\ InitRun /\ IdleIterm /\ IdlePath /\ IdleColor /\ IdleParse /\ IdleSlug
    /\ IdleClean /\ IdleProv /\ IdleTrust
SpecRun == InitSpecRun /\ [][NextRun]_vars

\* The process is scheduled as long as it has a step to take.
SpecRunFair == SpecRun /\ WF_vars(NextRun)

InitSpecPath ==
    /\ InitPath /\ IdleIterm /\ IdleRun /\ IdleColor /\ IdleParse /\ IdleSlug
    /\ IdleClean /\ IdleProv /\ IdleTrust
SpecPath == InitSpecPath /\ [][NextPath]_vars

InitSpecColor ==
    /\ InitColor /\ IdleIterm /\ IdleRun /\ IdlePath /\ IdleParse /\ IdleSlug
    /\ IdleClean /\ IdleProv /\ IdleTrust
SpecColor == InitSpecColor /\ [][NextColor]_vars

InitSpecParse ==
    /\ InitParse /\ IdleIterm /\ IdleRun /\ IdlePath /\ IdleColor /\ IdleSlug
    /\ IdleClean /\ IdleProv /\ IdleTrust
SpecParse == InitSpecParse /\ [][NextParse]_vars

InitSpecSlug ==
    /\ InitSlug /\ IdleIterm /\ IdleRun /\ IdlePath /\ IdleColor /\ IdleParse
    /\ IdleClean /\ IdleProv /\ IdleTrust
SpecSlug == InitSpecSlug /\ [][NextSlug]_vars

InitSpecClean ==
    /\ InitClean /\ IdleIterm /\ IdleRun /\ IdlePath /\ IdleColor /\ IdleParse
    /\ IdleSlug /\ IdleProv /\ IdleTrust
SpecClean == InitSpecClean /\ [][NextClean]_vars

InitSpecProv ==
    /\ InitProv /\ IdleIterm /\ IdleRun /\ IdlePath /\ IdleColor /\ IdleParse
    /\ IdleSlug /\ IdleClean /\ IdleTrust
SpecProv == InitSpecProv /\ [][NextProv]_vars

InitSpecTrust ==
    /\ InitTrust /\ IdleIterm /\ IdleRun /\ IdlePath /\ IdleColor /\ IdleParse
    /\ IdleSlug /\ IdleClean /\ IdleProv
SpecTrust == InitSpecTrust /\ [][NextTrust]_vars

---------------------------------------------------------------------------
(* C1: the reset sequences are never emitted twice for one setup and never *)
(* emitted when no setup was done, in every interleaving of the guard with *)
(* the interrupt handler.                                                  *)
C1_NoDoubleReset ==
    /\ Count(emitted, "reset_bg") <= Count(emitted, "set_bg")
    /\ Count(emitted, "reset_title") <= Count(emitted, "set_title")

(* C2: once a set sequence has been emitted, both reset sequences have     *)
(* been emitted by the time the process has exited: on normal return, on   *)
(* exit 1, and on an interrupt that arrived after the first set sequence.  *)
C2_ResetBeforeExit ==
    (/\ exitCode # NoExit
     /\ Count(emitted, "set_bg") > 0
     /\ (exitCode = 130 => sigAfterSet))
        => /\ Count(emitted, "reset_bg") > 0
           /\ Count(emitted, "reset_title") > 0

(* C3: for an existing worktree reported to have uncommitted changes, the  *)
(* prompt returns UseExisting (and the hard reset runs) only if the answer *)
(* read right after the selection "1" is y or Y; any other answer leaves   *)
(* the worktree untouched, does not end the program and leads back to the  *)
(* menu prompt.                                                            *)
AffirmativeAnswer(x) == Trim(x) \in {<<"y">>, <<"Y">>}

C3_OnlyAfterYes ==
    (has_changes /\ (action = "UseExisting" \/ wt.tip = "remote" \/ cmds # <<>>))
        => /\ Trim(lastMenu) = <<"1">>
           /\ AffirmativeAnswer(lastConfirm)

C3_DeclineStep ==
    (/\ rpc = "confirm"
     /\ lastConfirm' # IoError
     /\ ~AffirmativeAnswer(lastConfirm'))
        => /\ rpc' = "menu"
           /\ wt' = wt
           /\ cmds' = cmds
           /\ action' = "none"
           /\ final_path' = "none"

C4_UseExistingUpdates ==
    (rpc = "ready" /\ action = "UseExisting")
        => /\ final_path = "existing"
           /\ cmds = <<"fetch", "reset">>
           /\ wt.tip = "remote"

(* C5: when find_next_worktree_path succeeds, it returns <dir>/<base>-<k>  *)
(* for the smallest k >= 2 whose path did not exist at call time: the path *)
(* returned does not exist and every suffix from 2 to k-1 exists.          *)
C5_SmallestFree ==
    fpc = "ok"
        => \E k \in FirstSuffix..SuffixLimit :
              /\ returned = [dir |-> "worktree_dir", name |-> <<"base_name", "-", k>>]
              /\ returned \notin existing
              /\ \A j \in 2..(k - 1) :
                    [dir |-> "worktree_dir", name |-> <<"base_name", "-", j>>] \in existing

C5_Witness ==
    /\ fpc = "ok"
    /\ returned = Candidate(4)
    /\ Candidate(SuffixLimit) \in existing

(* C6, as claimed: the search fails after 100 attempts, exactly when the   *)
(* 100 consecutive suffixes starting at 2 were tried and all exist, and it *)
(* succeeds whenever fewer than 100 candidates are taken.                  *)
TakenCandidates == {k \in FirstSuffix..(MaxFill + 1) : Candidate(k) \in existing}

C6_FailsAfter100 ==
    fpc \in {"ok", "err"}
        => /\ (fpc = "err") <=> (tried = 100 /\ \A k \in 2..101 : Candidate(k) \in existing)
           /\ Cardinality(TakenCandidates) < 100 => fpc = "ok"

(* C6, amended: the search fails after 99 attempts, exactly when the       *)
(* suffixes 2..100 were all tried and all exist, and it succeeds whenever  *)
(* one of the suffixes 2..100 is free.                                     *)
C6_FailsAfter99 ==
    fpc \in {"ok", "err"}
        => /\ (fpc = "err") <=> (tried = 99 /\ \A k \in 2..100 : Candidate(k) \in existing)
           /\ (\E k \in 2..100 : Candidate(k) \notin existing) => (fpc = "ok" /\ tried <= 99)

C6_Witness ==
    /\ fpc = "err"
    /\ tried = 99
    /\ Cardinality(TakenCandidates) = 99
    /\ Candidate(101) \notin existing

(* C7, as claimed: in any reachable state of the color directory, two      *)
(* calls of pick_available_color for the same worktree path, with no       *)
(* deletion of that worktree's color file in between, return the same      *)
(* color, whatever other worktrees are decorated in between.               *)
C7_StablePick ==
    \A q \in WorktreePaths :
        prevPick[q] # NoColor => lastPick[q] = prevPick[q]

(* C7, amended: the same, for a worktree whose color file exists at the    *)
(* first call and is neither deleted nor rewritten with another content in *)
(* between.                                                                *)
C7_StableOncePersisted ==
    \A q \in WorktreePaths :
        kept[q] => lastPick[q] = prevPick[q]

C7_Witness ==
    \E q \in WorktreePaths :
        /\ kept[q]
        /\ between[q] >= 1
        /\ lastPick[q] = prevPick[q]
        /\ startFill = Len(COLOR_PALETTE)

(* C8: starting from an empty color directory, assigning colors (pick then *)
(* save) to N <= 12 distinct worktree paths yields N pairwise distinct     *)
(* palette colors, in every order and interleaving of the invocations.     *)
C8_DistinctColors ==
    (startFill = 0 /\ removed = 0)
        => \A i, j \in Invocations :
              (/\ inv[i].pc = "saved" /\ inv[j].pc = "saved"
               /\ inv[i].path # inv[j].path)
                  => inv[i].color # inv[j].color


---------------------------------------------------------------------------
(* What the claims about extract_pr_number speak of, stated on the input   *)
(* alone.                                                                   *)

\* A pure decimal digit string, and the integer it denotes.
IsDigitString(s) == s # <<>> /\ \A i \in 1..Len(s) : IsAsciiDigit(s[i])
Denoted(s) ==
    LET k == CHOOSE k \in 1..Len(s) :
                 /\ \A j \in 1..(k - 1) : s[j] = "0"
                 /\ (s[k] # "0" \/ k = Len(s))
    IN  SubSeq(s, k, Len(s))

\* Positions where /pull/ is followed by a decimal digit, and the integers
\* written by the digits that follow.
PullAt(s, i) ==
    /\ i + 6 <= Len(s)
    /\ \A j \in 1..6 : s[i + j - 1] = PullPrefix[j]
    /\ IsAsciiDigit(s[i + 6])
DigitsAfterPull(s) ==
    { Denoted(SubSeq(s, i + 6, e)) :
        <<i, e>> \in { x \in (1..Len(s)) \X (1..Len(s)) :
                          /\ PullAt(s, x[1]) /\ x[1] + 6 <= x[2]
                          /\ IsDigitString(SubSeq(s, x[1] + 6, x[2])) } }

NamesInput(r) == \E i \in 1..Len(r.message) : r.message[i] = input

(* C9, as claimed: extract_pr_number returns n for every input that is a   *)
(* pure decimal digit string denoting n, returns the digits as an integer  *)
(* for every input containing /pull/<digits>, and fails with an error that *)
(* names the input for every other input.                                  *)
C9_ExtractContract ==
    ppc = "done" =>
        /\ IsDigitString(input) => (result.ok /\ result.value = Denoted(input))
        /\ (~IsDigitString(input) /\ DigitsAfterPull(input) # {}) =>
               (result.ok /\ result.value \in DigitsAfterPull(input))
        /\ (~IsDigitString(input) /\ DigitsAfterPull(input) = {}) =>
               (~result.ok /\ NamesInput(result))

\* A numeral no greater than 2^64 - 1 = 18446744073709551615.
AtMostU64(n) ==
    \/ Len(n) < 20
    \/ /\ Len(n) = 20
       /\ \A i \in 1..20 :
            (\A j \in 1..(i - 1) : n[j] = U64_MAX[j]) =>
                DigitValue(n[i]) <= DigitValue(U64_MAX[i])

\* The input without one leading "+" that digits follow.
Unsigned(s) ==
    IF Len(s) >= 2 /\ s[1] = "+" THEN SubSeq(s, 2, Len(s)) ELSE s
IsNumber(s) == IsDigitString(Unsigned(s)) /\ AtMostU64(Denoted(Unsigned(s)))

\* Positions where /pull/ is followed by a digit of any script, and the
\* longest run of such digits after the first of them.
UrlAt(s, i) ==
    /\ i + 6 <= Len(s)
    /\ \A j \in 1..6 : s[i + j - 1] = PullPrefix[j]
    /\ IsRegexDigit(s[i + 6])
UrlDigits(s) ==
    LET i == CHOOSE i \in 1..Len(s) :
                 UrlAt(s, i) /\ \A j \in 1..(i - 1) : ~UrlAt(s, j)
        e == CHOOSE e \in (i + 6)..Len(s) :
                 /\ \A j \in (i + 6)..e : IsRegexDigit(s[j])
                 /\ (e = Len(s) \/ ~IsRegexDigit(s[e + 1]))
    IN  SubSeq(s, i + 6, e)
IsUrl(s) == \E i \in 1..Len(s) : UrlAt(s, i)

(* C9, amended: extract_pr_number returns n for every input that is a      *)
(* string of ASCII decimal digits, optionally preceded by one "+", that    *)
(* denotes an n of at most 2^64 - 1. For every other input that contains   *)
(* /pull/ followed by a digit, it takes the longest run of digits after    *)
(* the first such /pull/ and returns the integer they denote when they are *)
(* ASCII digits and the integer is at most 2^64 - 1, and otherwise fails   *)
(* with "Failed to parse PR number", which does not name the input. For    *)
(* every remaining input it fails with an error that names the input.      *)
C9_ExtractContractU64 ==
    ppc = "done" =>
        /\ IsNumber(input) =>
               (result.ok /\ result.value = Denoted(Unsigned(input)))
        /\ (~IsNumber(input) /\ IsUrl(input)) =>
               IF /\ IsDigitString(UrlDigits(input))
                  /\ AtMostU64(Denoted(UrlDigits(input)))
               THEN result.ok /\ result.value = Denoted(UrlDigits(input))
               ELSE /\ ~result.ok /\ ~NamesInput(result)
                    /\ result.message = FailedToParse
        /\ (~IsNumber(input) /\ ~IsUrl(input)) =>
               (~result.ok /\ NamesInput(result))

\* A URL whose digits exceed u64::MAX has been refused without naming it.
C9_Witness ==
    /\ ppc = "done" /\ ~IsNumber(input) /\ IsUrl(input)
    /\ IsDigitString(UrlDigits(input))
    /\ ~AtMostU64(Denoted(UrlDigits(input)))
    /\ ~result.ok

---------------------------------------------------------------------------
(* C10: slug generation is idempotent on its own output: for every title   *)
(* t, create_slug(create_slug(t)) = create_slug(t).                        *)
C10_SlugIdempotent == \A k \in 2..Len(slugs) : slugs[k] = slugs[1]

\* Both calls were made on a title with a prefix and more than four words,
\* and the slug kept four of them.
C10_Witness ==
    /\ Len(slugs) = 2
    /\ HasSeparator(title)
    /\ Len(NonEmpty(Split(WithoutPrefix(title), "-"))) > SlugSegments
    /\ Len(Split(slugs[1], "-")) = SlugSegments
    /\ slugs[1] # title


---------------------------------------------------------------------------
(* What C11 speaks of, stated on the title alone: the words of a text are  *)
(* its longest runs of alphanumeric characters, read left to right.        *)

IsLowerAlphanumeric(c) == IsAlphanumeric(c) /\ LowerChar(c) = <<c>>

\* The text after the first ": ", the whole text when there is none.
AfterFirstSeparator(t) ==
    IF \E i \in 1..(Len(t) - 1) : SubSeq(t, i, i + 1) = <<":", " ">>
    THEN LET i == CHOOSE i \in 1..(Len(t) - 1) :
                      /\ SubSeq(t, i, i + 1) = <<":", " ">>
                      /\ \A j \in 1..(i - 1) : SubSeq(t, j, j + 1) # <<":", " ">>
         IN  SubSeq(t, i + 2, Len(t))
    ELSE t

\* The words of s that start at or after position i, with the word that
\* is being read in cur.
RECURSIVE WordsFrom(_, _, _)
WordsFrom(s, i, cur) ==
    IF i > Len(s) THEN (IF cur = <<>> THEN <<>> ELSE <<cur>>)
    ELSE IF IsAlphanumeric(s[i]) THEN WordsFrom(s, i + 1, Append(cur, s[i]))
    ELSE (IF cur = <<>> THEN <<>> ELSE <<cur>>) \o WordsFrom(s, i + 1, <<>>)

RECURSIVE Hyphenated(_)
Hyphenated(ws) ==
    IF ws = <<>> THEN <<>>
    ELSE IF Len(ws) = 1 THEN ws[1]
    ELSE ws[1] \o <<"-">> \o Hyphenated(Tail(ws))

ExpectedSlug(t) ==
    LET ws == WordsFrom(ToLowercase(AfterFirstSeparator(t)), 1, <<>>)
    IN  Hyphenated(SubSeq(ws, 1, IF Len(ws) > 4 THEN 4 ELSE Len(ws)))

(* C11: for every title, create_slug strips only the text up to and        *)
(* including the first ": "; its result is the first four words of the     *)
(* lowered remainder joined by single hyphens: at most four non-empty      *)
(* segments of lower-case alphanumeric characters, no leading or trailing  *)
(* hyphen; an empty title gives an empty slug and "a: b: c" gives "b-c".   *)
C11_SlugShape ==
    Len(slugs) >= 1 =>
        LET r == slugs[1]
        IN  /\ r = ExpectedSlug(title)
            /\ \A i \in 1..Len(r) : r[i] = "-" \/ IsLowerAlphanumeric(r[i])
            /\ r # <<>> => (r[1] # "-" /\ r[Len(r)] # "-")
            /\ \A i \in 1..(Len(r) - 1) : ~(r[i] = "-" /\ r[i + 1] = "-")
            /\ Cardinality({i \in 1..Len(r) : r[i] = "-"}) <= 3
            /\ title = <<>> => r = <<>>
            /\ title = <<"A", ":", " ", "b", "1", ":", " ", "A">> =>
                   r = <<"b", "1", "-", "a">>

\* A title with two ": " separators was slugged: only the first was cut.
C11_Witness ==
    /\ Len(slugs) >= 1
    /\ Cardinality({i \in 1..(Len(title) - 1) :
                        title[i] = ":" /\ title[i + 1] = " "}) >= 2
    /\ Cardinality({i \in 1..Len(slugs[1]) : slugs[1][i] = "-"}) >= 1


---------------------------------------------------------------------------
(* C12: every invocation ends with exit code 0 exactly when no error was   *)
(* reported and with exit code 1 when any error was reported, a worktree   *)
(* that clean failed to remove included (130 on interrupt is the           *)
(* handler's exit).                                                        *)
C12_ExitCodes ==
    kexit # NoExit =>
        /\ kexit = 0 <=> kreported = <<>>
        /\ kreported # <<>> => kexit = 1


---------------------------------------------------------------------------
\* The hooks, and whether the tool or file a hook rests on is there.
Hooks == {"mise trust", "gt track", "copy settings", "add trust"}
ToolPresent(h) ==
    CASE h = "mise trust" -> miseFound
      [] h = "gt track" -> gtFound
      [] h = "copy settings" -> settings # "none"
      [] h = "add trust" -> TRUE

(* C13: for every post-create hook of both provisioning paths, when the    *)
(* hook's tool or source file is missing the hook is skipped without an    *)
(* error, and when the hook fails with its tool present the provisioning   *)
(* is aborted with an error.                                               *)
C13_HooksTolerated ==
    \A i \in 1..Len(vlog) :
        vlog[i].step \in Hooks =>
            /\ ~ToolPresent(vlog[i].step) =>
                   (vlog[i].result = "skipped" /\ (i = Len(vlog) => vpc # "err"))
            /\ (ToolPresent(vlog[i].step) /\ vlog[i].result # "ok") =>
                   (i = Len(vlog) /\ vpc = "err")


---------------------------------------------------------------------------
\* Positions of the log where a step was run with a result.
Ran(step, r) == {i \in 1..Len(vlog) : vlog[i].step = step /\ vlog[i].result = r}
RanAny(step) == {i \in 1..Len(vlog) : vlog[i].step = step}

(* C14: provisioning from a remote ref fetches the branch before any       *)
(* worktree add and attempts the add at origin/<branch>; when that add     *)
(* exits with a failure it retries exactly once, with FETCH_HEAD; "git     *)
(* worktree add failed" is reported only when both attempts failed; the    *)
(* hooks run only after one attempt succeeded; no other step is run twice. *)
C14_FetchHeadRetry ==
    vkind = "remote" =>
        /\ \A i \in RanAny("add origin/branch") \cup RanAny("add FETCH_HEAD") :
               \E j \in Ran("fetch", "ok") : j < i
        /\ \A i \in RanAny("add FETCH_HEAD") :
               i - 1 \in Ran("add origin/branch", "failed")
        /\ \A i \in Ran("add origin/branch", "failed") :
               IF i = Len(vlog) THEN vpc = "add_fetch_head"
               ELSE vlog[i + 1].step = "add FETCH_HEAD"
        /\ Cardinality(RanAny("add FETCH_HEAD")) <= 1
        /\ verr = "git worktree add failed" =>
               /\ Ran("add origin/branch", "failed") # {}
               /\ Ran("add FETCH_HEAD", "failed") # {}
        /\ (Ran("add origin/branch", "failed") # {}
              /\ Ran("add FETCH_HEAD", "failed") # {}) =>
               (vpc = "err" /\ verr = "git worktree add failed")
        /\ \A i \in 1..Len(vlog) :
               vlog[i].step \in Hooks =>
                   \E j \in Ran("add origin/branch", "ok")
                              \cup Ran("add FETCH_HEAD", "ok") : j < i
        /\ \A i, j \in 1..Len(vlog) : vlog[i].step = vlog[j].step => i = j

\* The add at origin/<branch> failed, the add at FETCH_HEAD succeeded and
\* the provisioning went on to its end.
C14_Witness ==
    /\ vkind = "remote" /\ vpc = "ok"
    /\ Ran("add origin/branch", "failed") # {}
    /\ Ran("add FETCH_HEAD", "ok") # {}
    /\ Ran("add trust", "ok") # {}


---------------------------------------------------------------------------
(* C15: every fallible step returns its error at once and no later step of *)
(* the command runs: no failure of an external command, a failed status    *)
(* query during enumeration and a failed removal during clean included, is *)
(* swallowed or followed by further work.                                  *)
C15_ErrorsPropagate ==
    \A i \in 1..Len(klog) :
        klog[i].result # "ok" =>
            (i = Len(klog) /\ kpc = "exited" /\ kexit = 1)

---------------------------------------------------------------------------
(* C16: clean requests the removal only of worktrees without uncommitted   *)
(* changes and never of the root repository: a worktree that is dirty, or  *)
(* whose status query did not succeed, is never passed to git worktree     *)
(* remove, and without --yes nothing is removed unless the answer is y/Y.  *)
C16_CleanRemovesOnlyClean ==
    \A i \in 1..Len(klog) :
        klog[i].cmd = "remove" =>
            /\ klog[i].path # Root
            /\ klog[i].path \notin dirty
            /\ \E j \in 1..(i - 1) :
                   klog[j] = [cmd |-> "status", path |-> klog[i].path,
                              result |-> "ok"]
            /\ skip_confirm \/ Trim(answer) \in {<<"y">>, <<"Y">>}


---------------------------------------------------------------------------
---------------------------------------------------------------------------
(* C18: in the conflict prompt a menu input other than "1" or "2" gives no *)
(* decision, changes no worktree and leads to another menu prompt; the     *)
(* prompt returns only UseExisting, after "1", or CreateNew, after "2";    *)
(* CreateNew never modifies the existing worktree.                         *)
C18_Decisions ==
    /\ action \in {"none", "UseExisting", "CreateNew"}
    /\ action = "UseExisting" => Trim(lastMenu) = <<"1">>
    /\ action = "CreateNew" =>
           (Trim(lastMenu) = <<"2">> /\ cmds = <<>> /\ wt.tip = "local")

C18_InvalidStep ==
    (/\ rpc = "menu" /\ menuTick' # menuTick
     /\ lastMenu' # IoError /\ Trim(lastMenu') \notin {<<"1">>, <<"2">>}) =>
        /\ rpc' = "menu" /\ action' = "none"
        /\ wt' = wt /\ cmds' = cmds /\ final_path' = final_path

C18_MenuContract == [](C18_Decisions) /\ [][C18_InvalidStep]_vars

\* An invalid selection was read, then "2": a new worktree was made and
\* the existing one is as it was.
C18_Witness ==
    /\ action = "CreateNew" /\ rpc = "ready" /\ final_path = "new"
    /\ reads = 2 /\ cancelled = 0 /\ ~has_changes /\ wt.dirty

---------------------------------------------------------------------------
(* C19: each invocation performs one linear sequence of steps and exits:   *)
(* when every external command returns, the conflict prompt ends for every *)
(* input stream, one that reaches end-of-file before a valid selection     *)
(* included.                                                               *)
C19_PromptTerminates == <>(rpc \in {"ready", "failed"})


---------------------------------------------------------------------------
(* C20: after add_claude_trust succeeds for a new worktree, projects maps  *)
(* the worktree's path to a copy of the main repository's entry, or of the *)
(* default template when there is none, with hasTrustDialogAccepted true   *)
(* and every session-usage field removed; every other key of projects, the *)
(* main repository's own entry included, is unchanged; no entry is         *)
(* deleted.                                                                *)
C20_TrustEntry ==
    tpc = "ok" =>
        LET base == IF RepoRoot \in DOMAIN before THEN before[RepoRoot]
                    ELSE DefaultTemplate
            e == projects[NewWorktree]
        IN  /\ NewWorktree \in DOMAIN projects
            /\ "hasTrustDialogAccepted" \in DOMAIN e
            /\ e["hasTrustDialogAccepted"] = "true"
            /\ DOMAIN e \cap SessionFields = {}
            /\ \A k \in DOMAIN base \ (SessionFields \cup {"hasTrustDialogAccepted"}) :
                   k \in DOMAIN e /\ e[k] = base[k]
            /\ DOMAIN e \subseteq DOMAIN base \cup {"hasTrustDialogAccepted"}
            /\ \A k \in DOMAIN before :
                   k \in DOMAIN projects
                   /\ (k # NewWorktree => projects[k] = before[k])
            /\ DOMAIN projects = DOMAIN before \cup {NewWorktree}

\* The main repository's entry had session fields and no trust; another
\* project was listed.
C20_Witness ==
    /\ tpc = "ok"
    /\ RepoRoot \in DOMAIN before /\ OtherProject \in DOMAIN before
    /\ {"lastCost", "exampleFiles", "custom"} \subseteq DOMAIN before[RepoRoot]
    /\ "hasTrustDialogAccepted" \in DOMAIN before[RepoRoot]
    /\ before[RepoRoot]["hasTrustDialogAccepted"] = "false"
    /\ projects[RepoRoot] = before[RepoRoot]

=============================================================================
